---- MODULE Spec2Model ----
(***************************************************************************)
(* blister: the typed key/value codec (format/src), the Map container      *)
(* built on it, and the Beatmap and Playlist records (src/src) that are    *)
(* written to and read from a byte stream.                                 *)
(*                                                                         *)
(* Numbers.  u8 and u16 are integers.  u32, u64 and usize are "wide"       *)
(* numbers: four 16-bit limbs, most significant first, because values up   *)
(* to 2^64-1 have to be told apart (a Binary of 2^32 bytes, a date of      *)
(* 2^63).  The little-endian wire form is computed from the limbs.         *)
(*                                                                         *)
(* Bytes.  A Vec<u8>, a String's bytes and a stream are sequences of runs  *)
(* <<b, n>>: n copies of byte b, n a wide number > 0, neighbouring runs    *)
(* holding different bytes.  A 65535-byte string is one run.               *)
(***************************************************************************)
EXTENDS Integers, Sequences, FiniteSets, TLC

\* ------------------------------------------------------------ wide numbers

W(n) == <<0, 0, n \div 65536, n % 65536>>

WLe(x, y) ==
    \/ x[1] < y[1]
    \/ x[1] = y[1] /\ x[2] < y[2]
    \/ x[1] = y[1] /\ x[2] = y[2] /\ x[3] < y[3]
    \/ x[1] = y[1] /\ x[2] = y[2] /\ x[3] = y[3] /\ x[4] <= y[4]

WAdd(x, y) ==
    LET s4 == x[4] + y[4]
        s3 == x[3] + y[3] + (s4 \div 65536)
        s2 == x[2] + y[2] + (s3 \div 65536)
        s1 == x[1] + y[1] + (s2 \div 65536)
    IN  <<s1 % 65536, s2 % 65536, s3 % 65536, s4 % 65536>>

\* x - y for y <= x
WSub(x, y) ==
    LET d4 == x[4] - y[4]
        b4 == IF d4 < 0 THEN 1 ELSE 0
        d3 == x[3] - y[3] - b4
        b3 == IF d3 < 0 THEN 1 ELSE 0
        d2 == x[2] - y[2] - b3
        b2 == IF d2 < 0 THEN 1 ELSE 0
        d1 == x[1] - y[1] - b2
    IN  <<d1 % 65536, d2 % 65536, d3 % 65536, d4 % 65536>>

\* the n low bytes of x, least significant first (byteorder's LE writers)
LEBytes(x, n) ==
    LET all == <<x[4] % 256, x[4] \div 256, x[3] % 256, x[3] \div 256,
                 x[2] % 256, x[2] \div 256, x[1] % 256, x[1] \div 256>>
    IN  SubSeq(all, 1, n)

\* the number whose little-endian bytes are bs (byteorder's LE readers)
FromLE(bs) ==
    LET b(i) == IF i <= Len(bs) THEN bs[i] ELSE 0
    IN  <<b(7) + 256 * b(8), b(5) + 256 * b(6), b(3) + 256 * b(4), b(1) + 256 * b(2)>>

\* ------------------------------------------------------------------ bytes

Rep(b, n) == IF n = W(0) THEN <<>> ELSE << <<b, n>> >>

Cat(a, b) ==
    IF a = <<>> THEN b
    ELSE IF b = <<>> THEN a
    ELSE IF a[Len(a)][1] = b[1][1]
         THEN SubSeq(a, 1, Len(a) - 1)
              \o << <<b[1][1], WAdd(a[Len(a)][2], b[1][2])>> >>
              \o Tail(b)
         ELSE a \o b

RECURSIVE Raw(_)
Raw(bs) == IF bs = <<>> THEN <<>> ELSE Cat(<< <<bs[1], W(1)>> >>, Raw(Tail(bs)))

\* the length of s added to n; n is evaluated at every step, so the sum never
\* nests deeper than one addition
RECURSIVE BLenFrom(_, _)
BLenFrom(s, n) ==
    IF n # <<>> /\ s = <<>> THEN n ELSE BLenFrom(Tail(s), WAdd(n, s[1][2]))

BLen(s) == BLenFrom(s, W(0))

\* the first n bytes of s and what follows them; ok is FALSE when s is shorter
RECURSIVE BSplit(_, _)
BSplit(s, n) ==
    IF n = W(0) THEN [ok |-> TRUE, head |-> <<>>, rest |-> s]
    ELSE IF s = <<>> THEN [ok |-> FALSE, head |-> <<>>, rest |-> <<>>]
    ELSE IF WLe(s[1][2], n)
         THEN LET t == BSplit(Tail(s), WSub(n, s[1][2]))
              IN  [ok |-> t.ok, head |-> Cat(<<s[1]>>, t.head), rest |-> t.rest]
         ELSE [ok |-> TRUE, head |-> << <<s[1][1], n>> >>,
               rest |-> << <<s[1][1], WSub(s[1][2], n)>> >> \o Tail(s)]

\* the bytes of a short s, one by one
RECURSIVE Explode(_)
Explode(s) ==
    IF s = <<>> THEN <<>>
    ELSE <<s[1][1]>>
         \o Explode(IF s[1][2] = W(1) THEN Tail(s)
                    ELSE << <<s[1][1], WSub(s[1][2], W(1))>> >> \o Tail(s))

\* ------------------------------------------------------- results and errors

Err(kind, arg) == [kind |-> kind, arg |-> arg]

IOEof == Err("IO", "UnexpectedEof")

None == [some |-> FALSE]

Some(x) == [some |-> TRUE, v |-> x]

\* Read::read_exact of n bytes, n small: the bytes one by one, and the rest
Take(s, n) ==
    LET taken(sp) == [ok |-> sp.ok, bs |-> Explode(sp.head), rest |-> sp.rest]
    IN  taken(BSplit(s, W(n)))

\* core::str::from_utf8 on explicit bytes
RECURSIVE Utf8Ok(_)
Utf8Ok(bs) ==
    LET n == Len(bs)
        b == bs[1]
        c(i, lo, hi) == i <= n /\ bs[i] \in lo..hi
        from(i) == Utf8Ok(SubSeq(bs, i, n))
    IN  IF bs = <<>> THEN TRUE
        ELSE IF b <= 127 THEN from(2)
        ELSE IF b \in 194..223 THEN c(2, 128, 191) /\ from(3)
        ELSE IF b = 224 THEN c(2, 160, 191) /\ c(3, 128, 191) /\ from(4)
        ELSE IF b \in (225..236) \cup (238..239)
             THEN c(2, 128, 191) /\ c(3, 128, 191) /\ from(4)
        ELSE IF b = 237 THEN c(2, 128, 159) /\ c(3, 128, 191) /\ from(4)
        ELSE IF b = 240
             THEN c(2, 144, 191) /\ c(3, 128, 191) /\ c(4, 128, 191) /\ from(5)
        ELSE IF b \in 241..243
             THEN c(2, 128, 191) /\ c(3, 128, 191) /\ c(4, 128, 191) /\ from(5)
        ELSE IF b = 244
             THEN c(2, 128, 143) /\ c(3, 128, 191) /\ c(4, 128, 191) /\ from(5)
        ELSE FALSE

\* The bytes that decide validity: a run of an ASCII byte is valid wherever one
\* such byte is, and five equal non-ASCII bytes in a row are never valid.
RECURSIVE Utf8Sample(_)
Utf8Sample(s) ==
    IF s = <<>> THEN <<>>
    ELSE LET b == s[1][1]
             n == IF b <= 127 \/ s[1][2] = W(1) THEN 1
                  ELSE IF WLe(s[1][2], W(4)) THEN s[1][2][4] ELSE 5
         IN  [i \in 1..n |-> b] \o Utf8Sample(Tail(s))

\* String::from_utf8
from_utf8(s) ==
    IF Utf8Ok(Utf8Sample(s)) THEN [ok |-> TRUE, v |-> s]
    ELSE [ok |-> FALSE, err |-> Err("InvalidUtf8", s)]

\* ------------------------------------------------------------ value codec

\* a Value: the name of its variant, and what the variant holds
Val(t, v) == <<t, v>>

data_type(value) ==
    CASE value[1] = "U8" -> 0
      [] value[1] = "U16" -> 1
      [] value[1] = "U32" -> 2
      [] value[1] = "ShortString" -> 3
      [] value[1] = "LongString" -> 4
      [] value[1] = "Binary" -> 5
      [] value[1] = "Bool" -> 6
      [] value[1] = "Float" -> 7
      [] value[1] = "Sha1" -> 8

\* usize -> u8 by `as`, which keeps the low byte whatever the length
cast_u8(len) == TRUE

\* usize -> u8 / u16 / u32 by TryInto
fits_u8(len) == WLe(len, W(255))

fits_u16(len) == WLe(len, W(65535))

fits_u32(len) == len[1] = 0 /\ len[2] = 0

\* WriteExt::write_kv: out is what reached the writer, also when the call fails.
\* The key and the tag are written first, then the match on the value writes
\* the payload or fails on the length conversion.
write_kv(key, value) ==
    LET v == value[2]
        done(n, payload) == [ok |-> TRUE, written |-> n, payload |-> payload]
        overflow(len) == [ok |-> FALSE, err |-> Err("IntegerOverflow", len)]
        payload(len) ==
            CASE value[1] = "U8" -> done(W(4 + 1 + 1), Raw(<<v>>))
              [] value[1] = "U16" -> done(W(4 + 1 + 2), Raw(LEBytes(W(v), 2)))
              [] value[1] = "U32" -> done(W(4 + 1 + 4), Raw(LEBytes(v, 4)))
              [] value[1] = "ShortString" ->
                    IF fits_u8(len)
                    THEN done(WAdd(W(4 + 1 + 1), len), Cat(Raw(LEBytes(len, 1)), v))
                    ELSE overflow(len)
              [] value[1] = "LongString" ->
                    IF fits_u16(len)
                    THEN done(WAdd(W(4 + 1 + 2), len), Cat(Raw(LEBytes(len, 2)), v))
                    ELSE overflow(len)
              [] value[1] = "Binary" ->
                    IF fits_u32(len)
                    THEN done(WAdd(W(4 + 1 + 4), len), Cat(Raw(LEBytes(len, 4)), v))
                    ELSE overflow(len)
              [] value[1] = "Bool" -> done(W(4 + 1 + 1), Raw(<<IF v THEN 1 ELSE 0>>))
              [] value[1] = "Float" -> done(W(4 + 1 + 4), Raw(LEBytes(v, 4)))
              [] value[1] = "Sha1" -> done(W(4 + 1 + 20), v)
        emit(hdr, w) ==
            IF w.ok THEN [ok |-> TRUE, written |-> w.written, out |-> Cat(hdr, w.payload)]
            ELSE [ok |-> FALSE, err |-> w.err, out |-> hdr]
    IN  emit(Cat(Raw(LEBytes(key, 4)), Raw(<<data_type(value)>>)), payload(BLen(v)))

\* the match on data_type in ReadExt::read_kv, s the reader after key and tag
read_value(data_type_, s) ==
    LET fail(e) == [ok |-> FALSE, err |-> e]
        done(n, value, rest) == [ok |-> TRUE, read |-> n, value |-> value, rest |-> rest]
        \* read_u8 / read_u16 / read_u32 / read_f32 and nothing more
        number(n, t, r) ==
            IF ~r.ok THEN fail(IOEof)
            ELSE done(W(4 + 1 + n),
                      Val(t, CASE t = "U8" -> r.bs[1]
                               [] t = "U16" -> FromLE(r.bs)[4]
                               [] OTHER -> FromLE(r.bs)),
                      r.rest)
        bool(r) ==
            IF ~r.ok THEN fail(IOEof)
            ELSE IF r.bs[1] = 0 THEN done(W(4 + 1 + 1), Val("Bool", FALSE), r.rest)
            ELSE IF r.bs[1] = 1 THEN done(W(4 + 1 + 1), Val("Bool", TRUE), r.rest)
            ELSE fail(Err("InvalidBoolean", r.bs[1]))
        \* a length of w bytes, then read_exact of that many bytes
        body(len, b) == [ok |-> b.ok, len |-> len, bytes |-> b.head, rest |-> b.rest]
        length(l) ==
            IF l.ok THEN body(FromLE(l.bs), BSplit(l.rest, FromLE(l.bs)))
            ELSE [ok |-> FALSE]
        sized(w) == length(Take(s, w))
        utf8(w, t, r, u) ==
            IF ~u.ok THEN fail(u.err)
            ELSE done(WAdd(W(4 + 1 + w), r.len), Val(t, u.v), r.rest)
        string(w, t, r) == IF ~r.ok THEN fail(IOEof) ELSE utf8(w, t, r, from_utf8(r.bytes))
        binary(r) ==
            IF r.ok THEN done(WAdd(W(4 + 1 + 4), r.len), Val("Binary", r.bytes), r.rest)
            ELSE fail(IOEof)
        sha1(r) ==
            IF r.ok THEN done(W(4 + 1 + 20), Val("Sha1", r.head), r.rest)
            ELSE fail(IOEof)
    IN  CASE data_type_ = 0 -> number(1, "U8", Take(s, 1))
          [] data_type_ = 1 -> number(2, "U16", Take(s, 2))
          [] data_type_ = 2 -> number(4, "U32", Take(s, 4))
          [] data_type_ = 3 -> string(1, "ShortString", sized(1))
          [] data_type_ = 4 -> string(2, "LongString", sized(2))
          [] data_type_ = 5 -> binary(sized(4))
          [] data_type_ = 6 -> bool(Take(s, 1))
          [] data_type_ = 7 -> number(4, "Float", Take(s, 4))
          [] data_type_ = 8 -> sha1(BSplit(s, W(20)))
          [] OTHER -> fail(Err("InvalidDataType", data_type_))

\* a read_kv that counts the tag and the payload but not the 4 bytes of the key
read_kv_tag_count(s) ==
    LET value(k, r) ==
            IF ~r.ok THEN r
            ELSE [ok |-> TRUE, read |-> WSub(r.read, W(4)), key |-> FromLE(k.bs),
                  value |-> r.value, rest |-> r.rest]
        tag(k, t) ==
            IF ~k.ok \/ ~t.ok THEN [ok |-> FALSE, err |-> IOEof]
            ELSE value(k, read_value(t.bs[1], t.rest))
        key(k) == tag(k, Take(k.rest, 1))
    IN  key(Take(s, 4))

\* ReadExt::read_kv: the key, the tag, then the value the tag announces
read_kv(s) ==
    LET value(k, r) ==
            IF ~r.ok THEN r
            ELSE [ok |-> TRUE, read |-> r.read, key |-> FromLE(k.bs), value |-> r.value,
                  rest |-> r.rest]
        tag(k, t) ==
            IF ~k.ok \/ ~t.ok THEN [ok |-> FALSE, err |-> IOEof]
            ELSE value(k, read_value(t.bs[1], t.rest))
        key(k) == tag(k, Take(k.rest, 1))
    IN  key(Take(s, 4))

\* ------------------------------------------------------------ value table
\* beatmap.rs builds and matches Value::U64, which the Value of src/format does
\* not have: the entry codec it was written against is not among the sources.
\* It is taken from the value table of the format: tags 0 U8, 1 U16, 2 U32,
\* 3 U64 (eight little-endian bytes), 4 ShortString, 5 LongString, 6 Binary,
\* 7 Bool, 8 Float, 9 FixedHash, each payload laid out as write_kv lays it out.

U64_TAG == 3

\* the tag the value table gives a value
table_tag(value) ==
    IF value[1] = "U64" THEN U64_TAG
    ELSE IF data_type(value) < U64_TAG THEN data_type(value)
    ELSE data_type(value) + 1

\* an entry under the value table: key, tag, payload
write_entry(key, value) ==
    LET hdr == Raw(LEBytes(key, 4) \o <<table_tag(value)>>)
        retag(w) ==
            IF w.ok THEN [ok |-> TRUE, written |-> w.written,
                          out |-> Cat(hdr, BSplit(w.out, W(4 + 1)).rest)]
            ELSE [ok |-> FALSE, err |-> w.err, out |-> hdr]
    IN  IF value[1] = "U64"
        THEN [ok |-> TRUE, written |-> W(4 + 1 + 8),
              out |-> Cat(hdr, Raw(LEBytes(value[2], 8)))]
        ELSE retag(write_kv(key, value))

\* the entry a stream starts with, under the value table
read_entry(s) ==
    LET u64(h, p) ==
            IF p.ok
            THEN [ok |-> TRUE, read |-> W(4 + 1 + 8), key |-> FromLE(SubSeq(h.bs, 1, 4)),
                  value |-> Val("U64", FromLE(p.bs)), rest |-> p.rest]
            ELSE [ok |-> FALSE, err |-> IOEof]
        \* the same entry under the tag read_kv knows its kind by
        retagged(h) ==
            IF ~h.ok \/ h.bs[5] < U64_TAG THEN s
            ELSE Cat(Raw(SubSeq(h.bs, 1, 4) \o <<h.bs[5] - 1>>), h.rest)
        entry(h) ==
            IF h.ok /\ h.bs[5] = U64_TAG THEN u64(h, Take(h.rest, 8))
            ELSE IF h.ok /\ h.bs[5] > 9
            THEN [ok |-> FALSE, err |-> Err("InvalidDataType", h.bs[5])]
            ELSE read_kv(retagged(h))
    IN  entry(Take(s, 4 + 1))

\* -------------------------------------------------------------------- Map
\* A Map is a function from keys to values.

Map_new == <<>>

\* an insert that leaves the map as it was
Map_skip(m, k, v) == m

Map_insert(m, k, v) == [x \in DOMAIN m \cup {k} |-> IF x = k THEN v ELSE m[x]]

Map_get(m, k) == IF k \in DOMAIN m THEN Some(m[k]) ELSE None

\* a remove that leaves the entry in the map
Map_keep(m, k) == m

Map_remove(m, k) == [x \in DOMAIN m \ {k} |-> m[x]]

RECURSIVE SortKeys(_)
SortKeys(S) ==
    IF S = {} THEN <<>>
    ELSE LET lo == CHOOSE x \in S : \A y \in S : WLe(x, y)
         IN  <<lo>> \o SortKeys(S \ {lo})

RECURSIVE Factorial(_)
Factorial(n) == IF n <= 1 THEN 1 ELSE n * Factorial(n - 1)

\* the i-th arrangement of the elements of seq, i in 0..Factorial(Len(seq))-1
RECURSIVE Permutation(_, _)
Permutation(seq, i) ==
    LET n == Len(seq)
        k == ((i \div Factorial(n - 1)) % n) + 1
        others == [j \in 1..(n - 1) |-> IF j < k THEN seq[j] ELSE seq[j + 1]]
    IN  IF n = 0 THEN <<>> ELSE <<seq[k]>> \o Permutation(others, i % Factorial(n - 1))

\* HashMap::iter visits the keys in an order the hasher decides: with
\* RandomState, any of the n! orders of the n keys.
IterOrders(m) == Factorial(Cardinality(DOMAIN m))

IterOrder(m, i) == Permutation(SortKeys(DOMAIN m), i)

\* Map::write with the entries visited in the given order: the loop stops at
\* the first entry that fails
RECURSIVE Map_write_from(_, _, _)
Map_write_from(m, order, j) ==
    LET then(w, t) ==
            IF ~w.ok THEN [ok |-> FALSE, err |-> w.err, out |-> w.out]
            ELSE IF ~t.ok THEN [ok |-> FALSE, err |-> t.err, out |-> Cat(w.out, t.out)]
            ELSE [ok |-> TRUE, out |-> Cat(w.out, t.out)]
    IN  IF j > Len(order) THEN [ok |-> TRUE, out |-> <<>>]
        ELSE then(write_kv(order[j], m[order[j]]), Map_write_from(m, order, j + 1))

Map_write(m, order) == Map_write_from(m, order, 1)

\* Map::read into self: entries are read while the reader has bytes left; when
\* an entry fails, self keeps the entries read before it
RECURSIVE Map_read(_, _)
Map_read(self, s) ==
    LET insert(r) ==
            IF ~r.ok THEN [ok |-> FALSE, err |-> r.err, map |-> self]
            ELSE Map_read(Map_insert(self, r.key, r.value), r.rest)
    IN  IF s = <<>> THEN [ok |-> TRUE, map |-> self, rest |-> s]
        ELSE insert(read_kv(s))

\* ------------------------------------------------------- the Map of records
\* Map::write and Map::read as beatmap.rs needs them: over entries that may
\* hold a Value::U64.

RECURSIVE Map_write_U64_from(_, _, _)
Map_write_U64_from(m, order, j) ==
    LET then(w, t) ==
            IF ~w.ok THEN [ok |-> FALSE, err |-> w.err, out |-> w.out]
            ELSE IF ~t.ok THEN [ok |-> FALSE, err |-> t.err, out |-> Cat(w.out, t.out)]
            ELSE [ok |-> TRUE, out |-> Cat(w.out, t.out)]
    IN  IF j > Len(order) THEN [ok |-> TRUE, out |-> <<>>]
        ELSE then(write_entry(order[j], m[order[j]]), Map_write_U64_from(m, order, j + 1))

Map_write_U64(m, order) == Map_write_U64_from(m, order, 1)

RECURSIVE Map_read_U64(_, _)
Map_read_U64(self, s) ==
    LET insert(r) ==
            IF ~r.ok THEN [ok |-> FALSE, err |-> r.err, map |-> self]
            ELSE Map_read_U64(Map_insert(self, r.key, r.value), r.rest)
    IN  IF s = <<>> THEN [ok |-> TRUE, map |-> self, rest |-> s]
        ELSE insert(read_entry(s))

\* ---------------------------------------------------------------- Beatmap
\* A DateTime<Utc> is seconds since the epoch (sign and magnitude) and nanos.

Date(neg, secs, nanos) == [neg |-> neg, secs |-> secs, nanos |-> nanos]

\* the last second Utc.timestamp takes without a panic: 8210266876799,
\* 262142-12-31T23:59:59
CHRONO_MAX_SECS == <<0, 1911, 39434, 27519>>

BeatmapType_into(ty) ==
    CASE ty = "Key" -> 0
      [] ty = "Hash" -> 1
      [] ty = "Zip" -> 2
      [] ty = "LevelId" -> 3
      [] ty = "Unknown" -> 255

\* a conversion without the catch-all arm: every other byte becomes Key
BeatmapType_from_total(u) ==
    CASE u = 1 -> "Hash"
      [] u = 2 -> "Zip"
      [] u = 3 -> "LevelId"
      [] OTHER -> "Key"

\* a conversion with the first two arms exchanged
BeatmapType_from_swapped(u) ==
    CASE u = 0 -> "Hash"
      [] u = 1 -> "Key"
      [] u = 2 -> "Zip"
      [] u = 3 -> "LevelId"
      [] OTHER -> "Unknown"

BeatmapType_from(u) ==
    CASE u = 0 -> "Key"
      [] u = 1 -> "Hash"
      [] u = 2 -> "Zip"
      [] u = 3 -> "LevelId"
      [] OTHER -> "Unknown"

Beatmap_new(ty, date, key, hash, zip, level_id, custom) ==
    [ty |-> ty, date_added |-> date, key |-> key, hash |-> hash, zip |-> zip,
     level_id |-> level_id, custom_data |-> custom]

\* data.insert(k, f(x)) when the option holds x
insert_some(data, k, opt, t) == IF opt.some THEN Map_insert(data, k, Val(t, opt.v)) ELSE data

\* the Map Beatmap::write hands to Map::write
Beatmap_data(b) ==
    LET d0 == Map_insert(b.custom_data, W(0), Val("U8", BeatmapType_into(b.ty)))
        d1 == Map_insert(d0, W(1), Val("U64", b.date_added.secs))
        d2 == insert_some(d1, W(2), b.key, "U32")
        d3 == insert_some(d2, W(3), b.hash, "Sha1")
        d4 == insert_some(d3, W(4), b.zip, "Binary")
    IN  insert_some(d4, W(5), b.level_id, "ShortString")

\* i64 -> u64 by `as`: the seconds of a date before the epoch wrap
timestamp_as_u64(date) ==
    LET max == <<65535, 65535, 65535, 65535>>
    IN  [ok |-> TRUE,
         v |-> IF date.neg THEN WAdd(WSub(max, date.secs), W(1)) ELSE date.secs]

\* date_added.timestamp().try_into(): i64 -> u64 by TryInto
timestamp_try_into(date) ==
    IF date.neg THEN [ok |-> FALSE, err |-> Err("IntegerOverflow", date)]
    ELSE [ok |-> TRUE, v |-> date.secs]

\* Beatmap::write, the map's entries visited in its i-th order
Beatmap_write(b, i) ==
    LET written(w) ==
            IF ~w.ok THEN [ok |-> FALSE, err |-> Err("Format", w.err), out |-> w.out]
            ELSE w
        write(data) == written(Map_write_U64(data, IterOrder(data, i)))
        converted(secs) ==
            IF ~secs.ok THEN [ok |-> FALSE, err |-> secs.err, out |-> <<>>]
            ELSE write(Map_insert(Beatmap_data(b), W(1), Val("U64", secs.v)))
    IN  converted(timestamp_try_into(b.date_added))

\* a read that looks for the payload of the discriminant before it looks at the
\* kinds of fields 2..5
Beatmap_from_payload_first(data, strict) ==
    LET fail(kind, arg) == [ok |-> FALSE, err |-> Err(kind, arg)]
        f(k) == Map_get(data, W(k))
        is(k, t) == f(k).some /\ f(k).v[1] = t
        opt(k) == IF f(k).some THEN Some(f(k).v[2]) ELSE None
        ty == BeatmapType_from(f(0).v[2])
        u == f(1).v[2]
        rest == [k \in DOMAIN data \ {W(0), W(1), W(2), W(3), W(4), W(5)} |-> data[k]]
    IN  IF ~is(0, "U8") THEN fail("InvalidBeatmapType", f(0))
        ELSE IF strict /\ ty = "Unknown"
             THEN fail("StrictModeUnknownBeatmapType", f(0).v[2])
        ELSE IF ~is(1, "U64") THEN fail("InvalidBeatmapDateAdded", f(1))
        ELSE IF u[1] >= 32768 THEN fail("IntegerOverflow", u)
        ELSE IF ~WLe(u, CHRONO_MAX_SECS) THEN fail("Panic", u)
        ELSE IF ty = "Key" /\ ~f(2).some THEN fail("MissingBeatmapKey", None)
        ELSE IF ty = "Hash" /\ ~f(3).some THEN fail("MissingBeatmapHash", None)
        ELSE IF ty = "Zip" /\ ~f(4).some THEN fail("MissingBeatmapZip", None)
        ELSE IF ty = "LevelId" /\ ~f(5).some THEN fail("MissingBeatmapLevelId", None)
        ELSE IF f(2).some /\ ~is(2, "U32") THEN fail("InvalidBeatmapKey", f(2))
        ELSE IF f(3).some /\ ~is(3, "Sha1") THEN fail("InvalidBeatmapHash", f(3))
        ELSE IF f(4).some /\ ~is(4, "Binary") THEN fail("InvalidBeatmapZip", f(4))
        ELSE IF f(5).some /\ ~is(5, "ShortString") THEN fail("InvalidBeatmapLevelId", f(5))
        ELSE [ok |-> TRUE,
              v |-> Beatmap_new(ty, Date(FALSE, u, 0), opt(2), opt(3), opt(4), opt(5), rest)]

\* the fields Beatmap::read takes out of the decoded Map
Beatmap_from(data, strict) ==
    LET fail(kind, arg) == [ok |-> FALSE, err |-> Err(kind, arg)]
        f(k) == Map_get(data, W(k))
        is(k, t) == f(k).some /\ f(k).v[1] = t
        opt(k) == IF f(k).some THEN Some(f(k).v[2]) ELSE None
        ty == BeatmapType_from(f(0).v[2])
        u == f(1).v[2]
        remove(m, k) == Map_remove(m, W(k))
        rest == remove(remove(remove(remove(remove(remove(data, 0), 1), 2), 3), 4), 5)
    IN  IF ~is(0, "U8") THEN fail("InvalidBeatmapType", f(0))
        ELSE IF strict /\ ty = "Unknown"
             THEN fail("StrictModeUnknownBeatmapType", f(0).v[2])
        ELSE IF ~is(1, "U64") THEN fail("InvalidBeatmapDateAdded", f(1))
        ELSE IF u[1] >= 32768 THEN fail("IntegerOverflow", u)
        ELSE IF ~WLe(u, CHRONO_MAX_SECS) THEN fail("Panic", u)
        ELSE IF f(2).some /\ ~is(2, "U32") THEN fail("InvalidBeatmapKey", f(2))
        ELSE IF f(3).some /\ ~is(3, "Sha1") THEN fail("InvalidBeatmapHash", f(3))
        ELSE IF f(4).some /\ ~is(4, "Binary") THEN fail("InvalidBeatmapZip", f(4))
        ELSE IF f(5).some /\ ~is(5, "ShortString") THEN fail("InvalidBeatmapLevelId", f(5))
        ELSE IF ty = "Key" /\ ~f(2).some THEN fail("MissingBeatmapKey", None)
        ELSE IF ty = "Hash" /\ ~f(3).some THEN fail("MissingBeatmapHash", None)
        ELSE IF ty = "Zip" /\ ~f(4).some THEN fail("MissingBeatmapZip", None)
        ELSE IF ty = "LevelId" /\ ~f(5).some THEN fail("MissingBeatmapLevelId", None)
        ELSE [ok |-> TRUE,
              v |-> Beatmap_new(ty, Date(FALSE, u, 0), opt(2), opt(3), opt(4), opt(5), rest)]

\* Beatmap::read
Beatmap_read(s, strict) ==
    LET built(m, b) == IF ~b.ok THEN b ELSE [ok |-> TRUE, v |-> b.v, rest |-> m.rest]
        decoded(m) ==
            IF ~m.ok THEN [ok |-> FALSE, err |-> Err("Format", m.err)]
            ELSE built(m, Beatmap_from(m.map, strict))
    IN  decoded(Map_read_U64(Map_new, s))

\* --------------------------------------------------------------- Playlist

MAGIC_NUMBER_LEN == 8

\* b"Blist.v2"
MAGIC_NUMBER_V2 == <<66, 108, 105, 115, 116, 46, 118, 50>>

\* b"Blist.v3"
MAGIC_NUMBER == <<66, 108, 105, 115, 116, 46, 118, 51>>

\* flate2's gzip stream is an opaque pair here: what the encoder makes of a
\* payload is the gzip magic and method followed by the payload as it is, not
\* the deflate stream flate2 writes; the decoder gives the payload back and
\* fails on anything that does not start with that frame.
GZ_HEADER == <<31, 139, 8>>

GzEncoder_finish(payload) == Cat(Raw(GZ_HEADER), payload)

GzDecoder_read(s) ==
    LET framed(h) ==
            IF h.ok /\ h.bs = GZ_HEADER THEN [ok |-> TRUE, payload |-> h.rest]
            ELSE [ok |-> FALSE, err |-> Err("IO", "invalid gzip header")]
    IN  framed(Take(s, Len(GZ_HEADER)))

Playlist_new(title, author, description, cover, maps, custom) ==
    [title |-> title, author |-> author, description |-> description, cover |-> cover,
     maps |-> maps, custom_data |-> custom]

\* the metadata Map Playlist::write hands to Map::write
Playlist_data(p) ==
    LET d0 == Map_insert(p.custom_data, W(0), Val("ShortString", p.title))
        d1 == Map_insert(d0, W(1), Val("ShortString", p.author))
        d2 == insert_some(d1, W(2), p.description, "LongString")
    IN  insert_some(d2, W(3), p.cover, "Binary")

\* the loop over maps in Playlist::write_with_compression, the entries of the
\* j-th map visited in its js[j]-th order
RECURSIVE write_maps(_, _, _)
write_maps(maps, j, js) ==
    LET then(w, t) ==
            IF ~w.ok THEN w
            ELSE IF ~t.ok THEN t
            ELSE [ok |-> TRUE, out |-> Cat(w.out, t.out)]
    IN  IF j > Len(maps) THEN [ok |-> TRUE, out |-> <<>>]
        ELSE then(Beatmap_write(maps[j], js[j]), write_maps(maps, j + 1, js))

\* Playlist::write_with_compression, the metadata entries visited in their
\* i-th order and those of the j-th map in their js[j]-th; the encoder's buffer
\* reaches the writer only when all of it was built
Playlist_write(p, i, js) ==
    LET count == Raw(LEBytes(W(Len(p.maps)), 4))
        magic == Raw(MAGIC_NUMBER)
        finish(meta, maps) ==
            IF ~meta.ok THEN [ok |-> FALSE, err |-> Err("Format", meta.err), out |-> magic]
            ELSE IF ~maps.ok THEN [ok |-> FALSE, err |-> maps.err, out |-> magic]
            ELSE [ok |-> TRUE,
                  out |-> Cat(magic, GzEncoder_finish(Cat(Cat(meta.out, count), maps.out)))]
        write(data) == finish(Map_write(data, IterOrder(data, i)), write_maps(p.maps, 1, js))
    IN  write(Playlist_data(p))

\* the loop over map_count in Playlist::read
RECURSIVE read_maps(_, _, _, _)
read_maps(s, n, strict, acc) ==
    LET push(b) ==
            IF ~b.ok THEN [ok |-> FALSE, err |-> b.err, maps |-> acc]
            ELSE read_maps(b.rest, WSub(n, W(1)), strict, Append(acc, b.v))
    IN  IF n = W(0) THEN [ok |-> TRUE, maps |-> acc, rest |-> s]
        ELSE push(Beatmap_read(s, strict))

\* Playlist::read.  stage is the step the read ended in, consumed the bytes
\* taken from the reader, inflated whether the decoder was read from, data the
\* local map of that name once title, author, description and cover were
\* taken out of it.  The steps are listed last to first.
Playlist_read(s, strict) ==
    LET fail(kind, arg, stage) ==
            [ok |-> FALSE, err |-> Err(kind, arg), stage |-> stage,
             consumed |-> BLen(s), inflated |-> TRUE]
        late(kind, arg, stage, data) ==
            [ok |-> FALSE, err |-> Err(kind, arg), stage |-> stage,
             consumed |-> BLen(s), inflated |-> TRUE, data |-> data]
        \* data.remove(k): what the map held, and the map without it
        remove(data, k) == [v |-> Map_get(data, W(k)), data |-> Map_remove(data, W(k))]
        is(r, t) == r.v.some /\ r.v.v[1] = t
        maps(title, author, description, cover, data, r) ==
            IF ~r.ok THEN late(r.err.kind, r.err.arg, "maps", data)
            ELSE [ok |-> TRUE, stage |-> "done", consumed |-> BLen(s), inflated |-> TRUE,
                  data |-> data,
                  v |-> Playlist_new(title, author, description, cover, r.maps, data)]
        count(title, author, description, cover, data, c) ==
            IF ~c.ok THEN late("IO", "UnexpectedEof", "count", data)
            ELSE maps(title, author, description, cover, data,
                      read_maps(c.rest, FromLE(c.bs), strict, <<>>))
        \* Some(x) of the kind => Some(x), None => None
        held(r) == IF r.v.some THEN Some(r.v.v[2]) ELSE None
        cover(title, author, description, r, rest) ==
            IF r.v.some /\ ~is(r, "Binary") THEN fail("InvalidPlaylistCover", r.v, "metadata")
            ELSE count(title, author, description, held(r), r.data, Take(rest, 4))
        description(title, author, r, rest) ==
            IF r.v.some /\ ~is(r, "LongString")
            THEN fail("InvalidPlaylistDescription", r.v, "metadata")
            ELSE cover(title, author, held(r), remove(r.data, 3), rest)
        author(title, r, rest) ==
            IF is(r, "ShortString") THEN description(title, r.v.v[2], remove(r.data, 2), rest)
            ELSE fail("InvalidPlaylistAuthor", r.v, "metadata")
        title(r, rest) ==
            IF is(r, "ShortString") THEN author(r.v.v[2], remove(r.data, 1), rest)
            ELSE fail("InvalidPlaylistTitle", r.v, "metadata")
        fields(m) ==
            IF ~m.ok THEN fail("Format", m.err, "metadata")
            ELSE title(remove(m.map, 0), m.rest)
        inflate(gz) ==
            IF ~gz.ok THEN fail("Format", gz.err, "metadata")
            ELSE fields(Map_read(Map_new, gz.payload))
        signature(magic) ==
            IF ~magic.ok
            THEN [ok |-> FALSE, err |-> IOEof, stage |-> "magic", consumed |-> BLen(s),
                  inflated |-> FALSE]
            ELSE IF Explode(magic.head) # MAGIC_NUMBER
            THEN [ok |-> FALSE, err |-> Err("InvalidMagicNumber", magic.head),
                  stage |-> "magic", consumed |-> W(MAGIC_NUMBER_LEN), inflated |-> FALSE]
            ELSE inflate(GzDecoder_read(magic.rest))
    IN  signature(BSplit(s, W(MAGIC_NUMBER_LEN)))

\* ----------------------------------------------------------------- inputs

MaxEntries == 2

MaxCustom == 1

MaxMaps == 2

\* maps kept of the playlist of tests::write_and_read
MaxTestMaps == 1

U32_MAX == <<0, 0, 65535, 65535>>

F32_1_234 == <<0, 0, 16285, 62390>>

KVKeys == {<<0, 0, 258, 772>>, U32_MAX}

KVValues ==
    {Val("U8", 0), Val("U8", 255),
     Val("U16", 0), Val("U16", 258), Val("U16", 65535),
     Val("U32", W(0)), Val("U32", <<0, 0, 258, 772>>), Val("U32", U32_MAX),
     Val("ShortString", <<>>), Val("ShortString", Raw(<<104, 105>>)),
     Val("ShortString", Raw(<<195, 169>>)),
     Val("ShortString", Rep(97, W(255))), Val("ShortString", Rep(97, W(256))),
     Val("LongString", <<>>), Val("LongString", Raw(<<104, 105>>)),
     Val("LongString", Rep(97, W(65535))), Val("LongString", Rep(97, W(65536))),
     Val("Binary", <<>>), Val("Binary", Raw(<<0, 1, 255>>)),
     Val("Binary", Rep(0, U32_MAX)), Val("Binary", Rep(0, <<0, 1, 0, 0>>)),
     Val("Bool", FALSE), Val("Bool", TRUE),
     Val("Float", W(0)), Val("Float", F32_1_234), Val("Float", <<0, 0, 32704, 0>>),
     Val("Sha1", Rep(4, W(20))),
     Val("Sha1", Raw(<<1, 2, 3, 4, 5, 6, 7, 8, 9, 10, 11, 12, 13, 14, 15, 16, 17, 18, 19, 20>>))}

\* maps of at most n entries over the given keys and values
MapsOver(keys, vals, n) ==
    UNION {[S -> vals] : S \in {T \in SUBSET keys : Cardinality(T) <= n}}

SampleKeys == {W(0), W(1), W(2112)}

SampleValues ==
    {Val("U8", 1), Val("U32", W(5)), Val("ShortString", Raw(<<97>>)),
     Val("ShortString", Rep(97, W(256)))}

SampleMaps == MapsOver(SampleKeys, SampleValues, MaxEntries)

\* what the caller may write to the same writer after a Map: a count of zero,
\* and one more entry
Tails == {Raw(<<0, 0, 0, 0>>), Raw(<<9, 0, 0, 0, 0, 7>>)}

CustomMaps == MapsOver({W(6), W(2112)}, {Val("Float", F32_1_234)}, MaxCustom)

SHA1_4 == Rep(4, W(20))

ZIP_10 == Raw(<<0, 1, 2, 3, 4, 5, 6, 7, 8, 9>>)

LEVEL_ID == Raw(<<108, 101, 118, 101, 108, 32, 73, 68>>)

Options(x) == {None, Some(x)}

SampleDates ==
    {Date(FALSE, W(1600000000), 0), Date(FALSE, W(0), 500), Date(TRUE, W(1), 0)}

\* the payloads a sample Beatmap holds: only its own, or its own and one more
\* (the level id; for LevelId the key)
Payloads(ty) ==
    {[key |-> IF ty = "Key" THEN Some(W(2112)) ELSE None,
      hash |-> IF ty = "Hash" THEN Some(SHA1_4) ELSE None,
      zip |-> IF ty = "Zip" THEN Some(ZIP_10) ELSE None,
      level_id |-> IF ty = "LevelId" THEN Some(LEVEL_ID) ELSE None],
     [key |-> IF ty \in {"Key", "LevelId"} THEN Some(W(2112)) ELSE None,
      hash |-> IF ty = "Hash" THEN Some(SHA1_4) ELSE None,
      zip |-> IF ty = "Zip" THEN Some(ZIP_10) ELSE None,
      level_id |-> Some(LEVEL_ID)]}

SampleBeatmaps ==
    {Beatmap_new(x[1], d, x[2].key, x[2].hash, x[2].zip, x[2].level_id, c) :
        x \in UNION {{<<ty, pl>> : pl \in Payloads(ty)} :
                        ty \in {"Key", "Hash", "Zip", "LevelId", "Unknown"}},
        d \in SampleDates, c \in CustomMaps}

\* the maps a Beatmap may be read from: every reserved field absent, of its
\* kind, or of another kind
WrongKinds ==
    {Val("Bool", TRUE), Val("U8", 1), Val("ShortString", Raw(<<122>>)),
     Val("LongString", LEVEL_ID)}

RecordFields ==
  {r \in
    [f0 : {None, Some(Val("U8", 0)), Some(Val("U8", 1)), Some(Val("U8", 2)),
           Some(Val("U8", 3)), Some(Val("U8", 99)), Some(Val("U16", 0))},
     f1 : {None, Some(Val("U64", W(1600000000))), Some(Val("U64", <<32768, 0, 0, 0>>)),
           Some(Val("U32", W(1)))},
     f2 : {None, Some(Val("U32", W(2112))), Some(Val("Bool", TRUE))},
     f3 : {None, Some(Val("Sha1", SHA1_4)), Some(Val("U8", 1))},
     f4 : {None, Some(Val("Binary", ZIP_10)), Some(Val("ShortString", Raw(<<122>>)))},
     f5 : {None, Some(Val("ShortString", LEVEL_ID)), Some(Val("LongString", LEVEL_ID))}] :
    Cardinality({o \in {r.f2, r.f3, r.f4, r.f5} : o.some /\ o.v \in WrongKinds}) <= 2}

put(m, k, opt) == IF opt.some THEN Map_insert(m, W(k), opt.v) ELSE m

RecordMap(r) ==
    put(put(put(put(put(put(Map_new, 0, r.f0), 1, r.f1), 2, r.f2), 3, r.f3), 4, r.f4),
        5, r.f5)

\* "test playlist"
TITLE == Raw(<<116, 101, 115, 116, 32, 112, 108, 97, 121, 108, 105, 115, 116>>)

\* "me"
AUTHOR == Raw(<<109, 101>>)

\* "description"
DESCRIPTION == Raw(<<100, 101, 115, 99, 114, 105, 112, 116, 105, 111, 110>>)

COVER == Raw(<<2, 1, 1, 2>>)

DATE == Date(FALSE, W(1600000000), 0)

\* new_key(2112), new_hash([4; 20]), new_zip(vec![0, .., 9]),
\* new_level_id("level ID"), their dates cut to whole seconds
write_and_read_maps ==
    <<Beatmap_new("Key", DATE, Some(W(2112)), None, None, None, Map_new),
      Beatmap_new("Hash", DATE, None, Some(SHA1_4), None, None, Map_new),
      Beatmap_new("Zip", DATE, None, None, Some(ZIP_10), None, Map_new),
      Beatmap_new("LevelId", DATE, None, None, None, Some(LEVEL_ID), Map_new)>>

\* the playlist tests::write_and_read writes and reads
write_and_read_old ==
    Playlist_new(TITLE, AUTHOR, Some(DESCRIPTION), Some(COVER), write_and_read_maps,
                 Map_insert(Map_new, W(2112), Val("Float", F32_1_234)))

\* a beatmap of a type this version does not know
UNKNOWN_MAP == Beatmap_new("Unknown", DATE, None, None, None, None, Map_new)

\* the first n maps of a playlist
Playlist_first(p, n) ==
    [p EXCEPT !.maps = SubSeq(p.maps, 1, IF n < Len(p.maps) THEN n ELSE Len(p.maps))]

\* lists of up to MaxMaps maps: the first maps of tests::write_and_read, and
\* the same lists ending in a map of unknown type
MapLists ==
    LET first(k) == SubSeq(write_and_read_maps, 1, k)
        most == IF MaxMaps < Len(write_and_read_maps) THEN MaxMaps
                ELSE Len(write_and_read_maps)
    IN  {first(k) : k \in 0..most} \cup {Append(first(k - 1), UNKNOWN_MAP) : k \in 1..most}

\* playlists without maps, with or without description, cover and custom
\* fields, playlists of title and author with maps, and the playlist of
\* tests::write_and_read with the first MaxTestMaps of its maps
SamplePlaylists ==
    {Playlist_new(t, AUTHOR, dc[1], dc[2], <<>>, cu) :
        t \in {TITLE, Rep(97, W(256))},
        dc \in {<<None, None>>, <<Some(DESCRIPTION), Some(COVER)>>}, cu \in CustomMaps}
    \cup {Playlist_new(TITLE, AUTHOR, None, None, ms, Map_new) : ms \in MapLists}
    \cup {Playlist_first(write_and_read_old, MaxTestMaps)}

\* the signature and the compressed metadata of tests::write_and_read, with
\* nothing after the metadata
write_and_read_metadata ==
    LET data == Playlist_data(write_and_read_old)
    IN  Cat(Raw(MAGIC_NUMBER), GzEncoder_finish(Map_write(data, IterOrder(data, 0)).out))

\* streams that no writer of the program produced
Feeds ==
    {<<>>,
     Raw(<<1, 0, 0>>), Raw(<<1, 0, 0, 0>>), Raw(<<1, 0, 0, 0, 0>>),
     Raw(<<1, 0, 0, 0, 3, 1, 97>>), Raw(<<1, 0, 0, 0, 4, 1, 0, 97>>),
     Raw(<<1, 0, 0, 0, 3, 2, 195, 40>>), Raw(<<1, 0, 0, 0, 3, 2, 97>>),
     Raw(<<1, 0, 0, 0, 6, 2>>), Raw(<<1, 0, 0, 0, 6, 1>>),
     Raw(<<1, 0, 0, 0, 9, 1, 2, 3, 4, 5, 6, 7, 8>>),
     Raw(<<1, 0, 0, 0, 3, 0, 0, 0, 0, 0, 0, 0, 0>>),
     Raw(<<1, 0, 0, 0, 3, 1, 2, 3, 4, 5, 6, 7, 8>>),
     Raw(<<1, 0, 0, 0, 10, 1>>), Raw(<<1, 0, 0, 0, 255, 1>>),
     Raw(<<1, 0, 0, 0, 0, 5, 1, 0, 0, 0, 0, 6>>),
     Raw(<<6, 0, 0, 0, 1, 0, 0, 0, 0, 5>>),
     Raw(<<66, 108, 105, 115, 116, 46, 118>>),
     Raw(MAGIC_NUMBER),
     Raw(<<66, 108, 105, 115, 116, 46, 118, 50, 31, 139, 8>>),
     Raw(<<98, 108, 105, 115, 116, 46, 118, 51, 31, 139, 8, 0, 0, 0, 0>>),
     Raw(MAGIC_NUMBER \o <<0, 0, 0, 0>>),
     Raw(MAGIC_NUMBER \o GZ_HEADER),
     Raw(MAGIC_NUMBER \o GZ_HEADER \o <<0, 0, 0, 0>>),
     Raw(MAGIC_NUMBER \o GZ_HEADER \o <<0, 0, 0, 0, 3, 1, 116, 1, 0, 0, 0, 3, 1, 109>>),
     Raw(MAGIC_NUMBER \o GZ_HEADER
         \o <<0, 0, 0, 0, 3, 1, 116, 1, 0, 0, 0, 3, 1, 109, 0, 0, 0, 0>>),
     Raw(MAGIC_NUMBER \o GZ_HEADER \o <<0, 0, 0, 0, 3, 1, 116, 1, 0, 0, 0, 0, 1>>),
     Raw(MAGIC_NUMBER \o GZ_HEADER \o <<1, 0, 0, 0, 3, 1, 109>>)}

\* ------------------------------------------------------------ the machine
\* One stream at a time: an operation writes it (or it is fed from outside),
\* the caller may write on after a Map, and one operation reads it.
\*   obj   what was written: the operation and its argument
\*   wres  the writer's result
\*   wire  the bytes that reached the stream
\*   rd    the read made from the stream: the operation, strict, its result

VARIABLES obj, wres, wire, rd

vars == <<obj, wres, wire, rd>>

Init ==
    /\ obj = [op |-> "none"]
    /\ wres = [ok |-> TRUE]
    /\ wire = <<>>
    /\ rd = [op |-> "none"]

Fresh == obj.op = "none" /\ rd.op = "none"

Outcome(w) ==
    IF ~w.ok THEN [ok |-> FALSE, err |-> w.err]
    ELSE IF "written" \in DOMAIN w THEN [ok |-> TRUE, written |-> w.written]
    ELSE [ok |-> TRUE]

Written(o, w) ==
    /\ obj' = o
    /\ wres' = Outcome(w)
    /\ wire' = w.out
    /\ UNCHANGED rd

\* the orders HashMap::iter may visit the entries of m in
Orders(m) == 0..(IterOrders(m) - 1)

\* one order for each map of a playlist
MapOrders(maps) ==
    LET counts == {IterOrders(Beatmap_data(maps[j])) : j \in 1..Len(maps)}
        most == IF counts = {} THEN 1 ELSE CHOOSE x \in counts : \A y \in counts : y <= x
    IN  {js \in [1..Len(maps) -> 0..(most - 1)] :
            \A j \in 1..Len(maps) : js[j] \in Orders(Beatmap_data(maps[j]))}

WriteKv ==
    /\ Fresh
    /\ \E k \in KVKeys, v \in KVValues :
          Written([op |-> "write_kv", key |-> k, value |-> v], write_kv(k, v))

MapWrite ==
    /\ Fresh
    /\ \E m \in SampleMaps : \E i \in Orders(m) :
          Written([op |-> "Map::write", map |-> m, order |-> IterOrder(m, i), tail |-> <<>>],
                  Map_write(m, IterOrder(m, i)))

\* the caller goes on writing to the writer it gave to Map::write
WriteAfter ==
    /\ obj.op = "Map::write" /\ wres.ok /\ obj.tail = <<>> /\ rd.op = "none"
    /\ \E t \in Tails :
          /\ obj' = [obj EXCEPT !.tail = t]
          /\ wire' = Cat(wire, t)
    /\ UNCHANGED <<wres, rd>>

BeatmapWrite ==
    /\ Fresh
    /\ \E b \in SampleBeatmaps : \E i \in Orders(Beatmap_data(b)) :
          Written([op |-> "Beatmap::write", beatmap |-> b], Beatmap_write(b, i))

PlaylistWrite ==
    /\ Fresh
    /\ \E p \in SamplePlaylists :
          \E i \in Orders(Playlist_data(p)), js \in MapOrders(p.maps) :
             Written([op |-> "Playlist::write", playlist |-> p], Playlist_write(p, i, js))

Feed ==
    /\ Fresh
    /\ \E s \in Feeds \cup {write_and_read_metadata} :
          Written([op |-> "feed"], [ok |-> TRUE, out |-> s])

FeedRecord ==
    /\ Fresh
    /\ \E r \in RecordFields :
          Written([op |-> "feed record", map |-> RecordMap(r)],
                  Map_write_U64(RecordMap(r), IterOrder(RecordMap(r), 0)))

Unread == obj.op # "none" /\ rd.op = "none"

Read(op, strict, res) ==
    /\ rd' = [op |-> op, strict |-> strict, res |-> res]
    /\ UNCHANGED <<obj, wres, wire>>

ReadKv == Unread /\ obj.op \in {"write_kv", "feed"} /\ Read("read_kv", FALSE, read_kv(wire))


MapRead == Unread /\ obj.op \in {"Map::write", "feed"} /\ Read("Map::read", FALSE, Map_read(Map_new, wire))

BeatmapRead ==
    /\ Unread /\ obj.op \in {"Beatmap::write", "feed record", "feed"}
    /\ \E strict \in BOOLEAN : Read("Beatmap::read", strict, Beatmap_read(wire, strict))

PlaylistRead ==
    /\ Unread /\ obj.op \in {"Playlist::write", "feed"}
    /\ \E strict \in BOOLEAN : Read("Playlist::read", strict, Playlist_read(wire, strict))

Next ==
    \/ WriteKv
    \/ MapWrite
    \/ WriteAfter
    \/ BeatmapWrite
    \/ PlaylistWrite
    \/ Feed
    \/ FeedRecord
    \/ ReadKv
    \/ MapRead
    \/ BeatmapRead
    \/ PlaylistRead

Spec == Init /\ [][Next]_vars

\* ----------------------------------------------------------------- claims

\* the signature the format documents
Blist_v3 == <<66, 108, 105, 115, 116, 46, 118, 51>>

Field(m, k) == Map_get(m, W(k))

IsKind(o, t) == o.some /\ o.v[1] = t

AbsentOr(o, t) == ~o.some \/ o.v[1] = t

Payload(o) == IF o.some THEN Some(o.v[2]) ELSE None

\* two results of Beatmap::read are the same record, or the same error
SameResult(a, b) ==
    /\ a.ok = b.ok
    /\ a.ok => a.v = b.v
    /\ ~a.ok => a.err.kind = b.err.kind

\* field 1 is a date Beatmap::read accepts
ValidDate(m) ==
    /\ IsKind(Field(m, 1), "U64")
    /\ Field(m, 1).v[2][1] < 32768
    /\ WLe(Field(m, 1).v[2], CHRONO_MAX_SECS)

\* the optional fields 2..5 are absent or of the kind the field table gives
WellTyped(m) ==
    /\ AbsentOr(Field(m, 2), "U32")
    /\ AbsentOr(Field(m, 3), "Sha1")
    /\ AbsentOr(Field(m, 4), "Binary")
    /\ AbsentOr(Field(m, 5), "ShortString")

\* the record carries the payload of its discriminant
HasOwnPayload(b) ==
    CASE b.ty = "Key" -> b.key.some
      [] b.ty = "Hash" -> b.hash.some
      [] b.ty = "Zip" -> b.zip.some
      [] b.ty = "LevelId" -> b.level_id.some
      [] OTHER -> TRUE

\* C1: Playlist::read with strict = true on the bytes Playlist::write produced
\* for a playlist succeeds and returns that playlist, every field equal and the
\* beatmaps the same in number and order.
C1_PlaylistRoundTrip ==
    (obj.op = "Playlist::write" /\ wres.ok /\ rd.op = "Playlist::read" /\ rd.strict)
        => rd.res.ok /\ rd.res.v = obj.playlist

\* C2: reading the entry written for a key and a value gives back that key and
\* that value, for every kind of the value table (U8, U16, U32, U64,
\* ShortString, LongString, Binary, Bool, Float, FixedHash), at the boundary
\* lengths too.  Value has no U64 and write_kv cannot be given one; the entry
\* of a U64 is the one the table lays out, tag 3 and eight little-endian bytes.
C2_U64 == {W(0), <<2055, 1541, 1027, 513>>}

C2_Written ==
    (obj.op = "write_kv" /\ wres.ok /\ rd.op = "read_kv")
        => rd.res.ok /\ rd.res.key = obj.key /\ rd.res.value = obj.value
           /\ rd.res.rest = <<>>

C2_EntryRoundTrip ==
    /\ C2_Written
    /\ \A x \in C2_U64 :
          (/\ obj.op = "feed" /\ rd.op = "read_kv"
           /\ wire = Raw(LEBytes(W(1), 4) \o <<3>> \o LEBytes(x, 8)))
              => rd.res.ok /\ rd.res.key = W(1) /\ rd.res.value = Val("U64", x)
                 /\ rd.res.rest = <<>>

\* C3: Map::read on the bytes Map::write produced for a map gives a map with
\* the same keys and values, in whatever order the entries were written.
C3_MapRoundTrip ==
    (obj.op = "Map::write" /\ wres.ok /\ obj.tail = <<>> /\ rd.op = "Map::read")
        => rd.res.ok /\ rd.res.map = obj.map

C3_Witness ==
    /\ obj.op = "Map::write" /\ wres.ok /\ obj.tail = <<>> /\ rd.op = "Map::read"
    /\ obj.order = <<W(2112), W(0)>>
    /\ rd.res.ok /\ rd.res.map = obj.map

\* C4: the bytes of Map::write are a 4-byte little-endian length and then that
\* many bytes of entries, and Map::read on a map followed by further data
\* returns the map and leaves every following byte unread.
C4_Framed(len) ==
    /\ len.ok
    /\ WAdd(FromLE(len.bs), WAdd(W(4), BLen(obj.tail))) = BLen(wire)

C4_MapSelfDelimited ==
    /\ (obj.op = "Map::write" /\ wres.ok) => C4_Framed(Take(wire, 4))
    /\ (obj.op = "Map::write" /\ wres.ok /\ rd.op = "Map::read")
          => rd.res.ok /\ rd.res.map = obj.map /\ rd.res.rest = obj.tail

\* C5: a Beatmap or a Playlist written and read keeps exactly its custom
\* fields, keys and values; a Beatmap that was read, then written (entries in
\* ascending or in descending key order), reads back equal.
C5_Reread(again) == again.ok /\ again.v = rd.res.v

C5_CustomDataPreserved ==
    /\ (/\ obj.op = "Beatmap::write" /\ wres.ok /\ rd.op = "Beatmap::read"
        /\ HasOwnPayload(obj.beatmap) /\ ~(rd.strict /\ obj.beatmap.ty = "Unknown"))
          => rd.res.ok /\ rd.res.v.custom_data = obj.beatmap.custom_data
    /\ (obj.op = "Playlist::write" /\ wres.ok /\ rd.op = "Playlist::read")
          => rd.res.ok /\ rd.res.v.custom_data = obj.playlist.custom_data
    /\ (rd.op = "Beatmap::read" /\ rd.res.ok)
          => \A i \in {0, IterOrders(Beatmap_data(rd.res.v)) - 1} :
                C5_Reread(Beatmap_read(Beatmap_write(rd.res.v, i).out, rd.strict))

\* C6: Playlist::read on a stream whose first 8 bytes are not "Blist.v3" fails
\* with InvalidMagicNumber carrying those bytes, having consumed those 8 bytes
\* only and read nothing through the decoder.
C6_Rejected(first) ==
    (first.ok /\ Explode(first.head) # Blist_v3)
        => /\ ~rd.res.ok
           /\ rd.res.err.kind = "InvalidMagicNumber"
           /\ rd.res.err.arg = first.head
           /\ rd.res.consumed = W(8)
           /\ ~rd.res.inflated

C6_MagicBeforeInflate == rd.op = "Playlist::read" => C6_Rejected(BSplit(wire, W(8)))

C6_Witness ==
    /\ rd.op = "Playlist::read"
    /\ wire = Raw(<<66, 108, 105, 115, 116, 46, 118, 50, 31, 139, 8>>)
    /\ rd.res.err.kind = "InvalidMagicNumber"
    /\ rd.res.consumed = W(8)

\* C7: for a Beatmap map whose field 0 is a U8 outside 0..3, with a valid
\* dateAdded and fields 2..5 absent or of their kind, Beatmap::read succeeds as
\* Unknown when strict is false and fails with StrictModeUnknownBeatmapType
\* carrying the byte when strict is true; for field 0 in 0..3 the result is the
\* same for both values of strict.
C7_StrictUnknown ==
    /\ (/\ obj.op = "feed record" /\ rd.op = "Beatmap::read"
        /\ IsKind(Field(obj.map, 0), "U8") /\ Field(obj.map, 0).v[2] \notin 0..3
        /\ ValidDate(obj.map) /\ WellTyped(obj.map))
          => IF rd.strict
             THEN /\ ~rd.res.ok
                  /\ rd.res.err.kind = "StrictModeUnknownBeatmapType"
                  /\ rd.res.err.arg = Field(obj.map, 0).v[2]
             ELSE rd.res.ok /\ rd.res.v.ty = "Unknown"
    /\ (/\ obj.op = "feed record" /\ rd.op = "Beatmap::read"
        /\ IsKind(Field(obj.map, 0), "U8") /\ Field(obj.map, 0).v[2] \in 0..3)
          => SameResult(rd.res, Beatmap_read(wire, ~rd.strict))

C7_Witness ==
    /\ obj.op = "feed record" /\ rd.op = "Beatmap::read" /\ ~rd.strict
    /\ DOMAIN obj.map = {W(0), W(1)}
    /\ obj.map[W(0)] = Val("U8", 99)
    /\ rd.res.ok /\ rd.res.v.ty = "Unknown"

\* C8: with a valid dateAdded and fields 2..5 absent or of their kind,
\* Beatmap::read of discriminant Key, Hash, Zip, LevelId fails with
\* MissingBeatmapKey, -Hash, -Zip, -LevelId when field 2, 3, 4, 5 is absent, and
\* succeeds when it is present, whichever other fields of 2..5 are present;
\* those present are in the record.
C8_Missing(d) ==
    CASE d = 0 -> "MissingBeatmapKey"
      [] d = 1 -> "MissingBeatmapHash"
      [] d = 2 -> "MissingBeatmapZip"
      [] d = 3 -> "MissingBeatmapLevelId"

C8_RequiredPayload ==
    (/\ obj.op = "feed record" /\ rd.op = "Beatmap::read"
     /\ IsKind(Field(obj.map, 0), "U8") /\ Field(obj.map, 0).v[2] \in 0..3
     /\ ValidDate(obj.map) /\ WellTyped(obj.map))
        => IF ~Field(obj.map, 2 + Field(obj.map, 0).v[2]).some
           THEN /\ ~rd.res.ok
                /\ rd.res.err.kind = C8_Missing(Field(obj.map, 0).v[2])
           ELSE /\ rd.res.ok
                /\ rd.res.v.key = Payload(Field(obj.map, 2))
                /\ rd.res.v.hash = Payload(Field(obj.map, 3))
                /\ rd.res.v.zip = Payload(Field(obj.map, 4))
                /\ rd.res.v.level_id = Payload(Field(obj.map, 5))

C8_Witness ==
    /\ obj.op = "feed record" /\ rd.op = "Beatmap::read"
    /\ DOMAIN obj.map = {W(0), W(1), W(2), W(3)}
    /\ obj.map[W(0)] = Val("U8", 0)
    /\ rd.res.ok /\ rd.res.v.ty = "Key" /\ rd.res.v.hash = Some(SHA1_4)

\* C9: the tag of every written entry is the one the value table gives its
\* kind (0 U8, 1 U16, 2 U32, 3 U64, 4 ShortString, 5 LongString, 6 Binary,
\* 7 Bool, 8 Float, 9 FixedHash), every entry read has the kind the table gives
\* its tag, and a tag outside 0..9 fails with InvalidDataType carrying it.
C9_Tag(t) ==
    CASE t = "U8" -> 0
      [] t = "U16" -> 1
      [] t = "U32" -> 2
      [] t = "U64" -> 3
      [] t = "ShortString" -> 4
      [] t = "LongString" -> 5
      [] t = "Binary" -> 6
      [] t = "Bool" -> 7
      [] t = "Float" -> 8
      [] t = "Sha1" -> 9

C9_Table(h) ==
    /\ obj.op = "write_kv"
          => h.ok /\ h.bs[5] = C9_Tag(obj.value[1])
    /\ (rd.op = "read_kv" /\ rd.res.ok)
          => h.bs[5] = C9_Tag(rd.res.value[1])
    /\ (rd.op = "read_kv" /\ h.ok /\ h.bs[5] \notin 0..9)
          => ~rd.res.ok /\ rd.res.err.kind = "InvalidDataType" /\ rd.res.err.arg = h.bs[5]

C9_TagTable == C9_Table(Take(wire, 5))

\* C10: writing a ShortString longer than 255 bytes, a LongString longer than
\* 65535 bytes or a Binary longer than 2^32 - 1 bytes fails with
\* IntegerOverflow, and neither a length nor a payload reaches the writer.
C10_Oversize(value, len) ==
    \/ value[1] = "ShortString" /\ ~WLe(len, W(255))
    \/ value[1] = "LongString" /\ ~WLe(len, W(65535))
    \/ value[1] = "Binary" /\ ~WLe(len, <<0, 0, 65535, 65535>>)

C10_Overflow ==
    (/\ obj.op = "write_kv"
     /\ obj.value[1] \in {"ShortString", "LongString", "Binary"}
     /\ C10_Oversize(obj.value, BLen(obj.value[2])))
        => /\ ~wres.ok
           /\ wres.err.kind = "IntegerOverflow"
           /\ BLen(wire) = W(4 + 1)

C10_Witness ==
    /\ obj.op = "write_kv"
    /\ obj.value = Val("Binary", Rep(0, <<0, 1, 0, 0>>))
    /\ ~wres.ok /\ wres.err.kind = "IntegerOverflow"

\* C11: Map::read takes the first 4 bytes as the length of the map and decodes
\* entries from exactly that many bytes: when fewer bytes follow than declared,
\* or the declared bytes do not divide into whole entries, it fails and returns
\* no map; it neither reads past the declared length nor accepts the content.
C11_Body(body) == (~body.ok \/ ~Map_read(Map_new, body.head).ok) => ~rd.res.ok

C11_Declared(len) == len.ok => C11_Body(BSplit(len.rest, FromLE(len.bs)))

C11_DeclaredLength == (obj.op = "feed" /\ rd.op = "Map::read") => C11_Declared(Take(wire, 4))

\* C12: Beatmap::read looks at fields 0, 1, 2, 3, 4, 5 in this order and fails
\* on the first one that is wrong: field 0 absent or not a U8 gives
\* InvalidBeatmapType, field 1 absent or not a U64 gives InvalidBeatmapDateAdded,
\* a field 2, 3, 4, 5 present with another kind than U32, Sha1, Binary,
\* ShortString gives InvalidBeatmapKey, -Hash, -Zip, -LevelId, each carrying
\* what the map held under the key; a Missing* error is given only when all six
\* fields passed.
C12_Fails(kind, arg) == ~rd.res.ok /\ rd.res.err.kind = kind /\ rd.res.err.arg = arg

C12_Known(m) ==
    IsKind(Field(m, 0), "U8") /\ ~(rd.strict /\ Field(m, 0).v[2] \notin 0..3)

C12_Order(m) ==
    /\ ~IsKind(Field(m, 0), "U8") => C12_Fails("InvalidBeatmapType", Field(m, 0))
    /\ (C12_Known(m) /\ ~IsKind(Field(m, 1), "U64"))
          => C12_Fails("InvalidBeatmapDateAdded", Field(m, 1))
    /\ (C12_Known(m) /\ ValidDate(m) /\ ~AbsentOr(Field(m, 2), "U32"))
          => C12_Fails("InvalidBeatmapKey", Field(m, 2))
    /\ (/\ C12_Known(m) /\ ValidDate(m) /\ AbsentOr(Field(m, 2), "U32")
        /\ ~AbsentOr(Field(m, 3), "Sha1"))
          => C12_Fails("InvalidBeatmapHash", Field(m, 3))
    /\ (/\ C12_Known(m) /\ ValidDate(m) /\ AbsentOr(Field(m, 2), "U32")
        /\ AbsentOr(Field(m, 3), "Sha1") /\ ~AbsentOr(Field(m, 4), "Binary"))
          => C12_Fails("InvalidBeatmapZip", Field(m, 4))
    /\ (/\ C12_Known(m) /\ ValidDate(m) /\ AbsentOr(Field(m, 2), "U32")
        /\ AbsentOr(Field(m, 3), "Sha1") /\ AbsentOr(Field(m, 4), "Binary")
        /\ ~AbsentOr(Field(m, 5), "ShortString"))
          => C12_Fails("InvalidBeatmapLevelId", Field(m, 5))
    /\ (~rd.res.ok /\ rd.res.err.kind \in {"MissingBeatmapKey", "MissingBeatmapHash",
                                           "MissingBeatmapZip", "MissingBeatmapLevelId"})
          => IsKind(Field(m, 0), "U8") /\ ValidDate(m) /\ WellTyped(m)

C12_FirstViolation ==
    (obj.op = "feed record" /\ rd.op = "Beatmap::read") => C12_Order(obj.map)

\* field 0 says Hash, field 3 is absent and field 5 is a LongString: the kind of
\* field 5 is reported, not the missing hash
C12_Witness ==
    /\ obj.op = "feed record" /\ rd.op = "Beatmap::read"
    /\ DOMAIN obj.map = {W(0), W(1), W(5)}
    /\ obj.map[W(0)] = Val("U8", 1)
    /\ obj.map[W(5)] = Val("LongString", LEVEL_ID)
    /\ ~rd.res.ok /\ rd.res.err.kind = "InvalidBeatmapLevelId"
    /\ rd.res.err.arg = Some(Val("LongString", LEVEL_ID))

\* C13: Playlist::read goes through signature, decoder, metadata Map, map count
\* and records in this order and never back: it ends in the first step that
\* fails, with an error and neither a Playlist nor a list of beatmaps, and it
\* returns a Playlist only when every step succeeded; when a record of a
\* written playlist is one Beatmap::read rejects (a map of unknown type, read
\* in strict mode), the read ends in the loop over the records, with the error
\* of that record.
C13_Holds(map, k, t) == W(k) \in DOMAIN map /\ map[W(k)][1] = t

C13_Meta(m) ==
    /\ m.ok
    /\ C13_Holds(m.map, 0, "ShortString") /\ C13_Holds(m.map, 1, "ShortString")
    /\ W(2) \in DOMAIN m.map => C13_Holds(m.map, 2, "LongString")
    /\ W(3) \in DOMAIN m.map => C13_Holds(m.map, 3, "Binary")

\* the first step that fails, found step by step on the stream
C13_Decoded(m) ==
    IF ~C13_Meta(m) THEN "metadata"
    ELSE IF ~Take(m.rest, 4).ok THEN "count"
    ELSE "records"

C13_Inflated(gz) ==
    IF ~gz.ok THEN "metadata" ELSE C13_Decoded(Map_read(Map_new, gz.payload))

C13_Signed(sig) ==
    IF ~sig.ok \/ Explode(sig.head) # Blist_v3 THEN "magic"
    ELSE C13_Inflated(GzDecoder_read(sig.rest))

C13_Ends(res, step) ==
    /\ res.stage \in {"magic", "metadata", "count", "maps", "done"}
    /\ IF step = "records" THEN res.stage \in {"maps", "done"} ELSE res.stage = step
    /\ res.ok <=> res.stage = "done"
    /\ res.ok => "v" \in DOMAIN res /\ "err" \notin DOMAIN res
    /\ ~res.ok => "err" \in DOMAIN res /\ "v" \notin DOMAIN res /\ "maps" \notin DOMAIN res

\* the records of a written playlist that a read in this mode rejects
C13_Rejected(maps, strict) == {k \in 1..Len(maps) : strict /\ maps[k].ty = "Unknown"}

C14_Payload(value) ==
    CASE value[1] \in {"U8", "Bool"} -> W(1)
      [] value[1] = "U16" -> W(2)
      [] value[1] \in {"U32", "Float"} -> W(4)
      [] value[1] = "ShortString" -> WAdd(W(1), BLen(value[2]))
      [] value[1] = "LongString" -> WAdd(W(2), BLen(value[2]))
      [] value[1] = "Binary" -> WAdd(W(4), BLen(value[2]))
      [] value[1] = "Sha1" -> W(20)

C14_Consumed ==
    (rd.op = "read_kv" /\ rd.res.ok)
        => WAdd(rd.res.read, BLen(rd.res.rest)) = BLen(wire)

C14_EntryCount ==
    /\ (obj.op = "write_kv" /\ wres.ok)
          => /\ wres.written = BLen(wire)
             /\ wres.written = WAdd(W(4 + 1), C14_Payload(obj.value))
    /\ C14_Consumed

\* C14 as stated: the count returned is the number of bytes written, and it
\* is the tag byte plus the payload.
C14_ValueCount ==
    /\ (obj.op = "write_kv" /\ wres.ok)
          => /\ wres.written = BLen(wire)
             /\ wres.written = WAdd(W(1), C14_Payload(obj.value))
    /\ C14_Consumed

\* a LongString of 65535 bytes: 65542 bytes written, counted and read
C14_Witness ==
    /\ obj.op = "write_kv" /\ wres.ok /\ rd.op = "read_kv" /\ rd.res.ok
    /\ obj.value = Val("LongString", Rep(97, W(65535)))
    /\ wres.written = <<0, 0, 1, 6>> /\ BLen(wire) = <<0, 0, 1, 6>>
    /\ rd.res.read = <<0, 0, 1, 6>>

\* C15: the custom data of a Beatmap that was read holds none of the keys 0..5,
\* and the custom data of a Playlist that was read holds none of the keys 0..3:
\* a reserved field of the decoded Map is in its record field only.  The custom
\* data of a Playlist is the map Playlist::read holds once the four fields were
\* taken out of it, and that map holds none of the keys 0..3 whether or not the
\* steps after it succeed.
C15_Reserved(n) == {W(k) : k \in 0..n}

C16_I64_MAX == <<32767, 65535, 65535, 65535>>

C16_DateChecked ==
    /\ (obj.op = "Beatmap::write" /\ obj.beatmap.date_added.neg)
          => ~wres.ok /\ wres.err.kind = "IntegerOverflow" /\ wire = <<>>
    /\ (/\ obj.op = "feed record" /\ rd.op = "Beatmap::read"
        /\ IsKind(Field(obj.map, 0), "U8")
        /\ ~(rd.strict /\ Field(obj.map, 0).v[2] \notin 0..3)
        /\ IsKind(Field(obj.map, 1), "U64")
        /\ ~WLe(Field(obj.map, 1).v[2], C16_I64_MAX))
          => ~rd.res.ok /\ rd.res.err.kind = "IntegerOverflow"
    /\ (rd.op = "Beatmap::read" /\ rd.res.ok) => ~rd.res.v.date_added.neg

\* field 1 is 2^63
C16_Witness ==
    /\ obj.op = "feed record" /\ rd.op = "Beatmap::read"
    /\ Field(obj.map, 0) = Some(Val("U8", 0))
    /\ Field(obj.map, 1) = Some(Val("U64", <<32768, 0, 0, 0>>))
    /\ Field(obj.map, 2).some
    /\ ~rd.res.ok /\ rd.res.err.kind = "IntegerOverflow"

====
